---- MODULE Spec2Model ----
(***************************************************************************)
(* A model of ctru-rs' error shim (src/ctru-rs/src/error.rs) and of the    *)
(* futures-tokio-basic example (src/ctru-rs/examples).                     *)
(*                                                                         *)
(* Three specifications share the variables:                               *)
(*   Spec      the raw result wrapper, the Error variant and its two       *)
(*             renderings, driven by one OS result code;                   *)
(*   ErrnoSpec Error::from_errno over the C library's errno and strerror   *)
(*             storage;                                                    *)
(*   LiveSpec  the example program: main thread and runtime thread.        *)
(*                                                                         *)
(* Text is a sequence of one-character strings; a literal of a format      *)
(* string is kept as one piece.  An i32 is an integer in -2^31 .. 2^31-1;  *)
(* a u32 is a pair of 16-bit halves, since 2^32 is not an integer here.    *)
(***************************************************************************)
EXTENDS Integers, Sequences, FiniteSets, TLC

VARIABLES
    code,         \* the i32 a raw OS call returned
    wrapper,      \* the LibCtruResult in hand (its field .0)
    err,          \* the Error in hand, or None
    last,         \* the last operation of the shim: its name, input and output
    errno,        \* the C library's thread error number
    strerror_buf, \* the C library's static translation storage
    heap,         \* the heap allocation owned by the held Error::Libc
    held,         \* the Error from_errno returned, or None
    errnoAtCall,  \* errno as it was when from_errno last ran
    mainPc,       \* the example's main thread
    taskPc,       \* the example's runtime thread
    exitChan,     \* the oneshot channel: "empty" or "sent"
    now,          \* tokio's clock, in seconds
    wake_time,    \* the task's next deadline, in seconds
    ticks,        \* how many times Tick was printed
    ticksAtJoin   \* ticks as it was when join returned, or -1

shimVars == <<code, wrapper, err, last>>
errnoVars == <<errno, strerror_buf, heap, held, errnoAtCall>>
exampleVars == <<mainPc, taskPc, exitChan, now, wake_time, ticks, ticksAtJoin>>
vars == <<shimVars, errnoVars, exampleVars>>

None == [tag |-> "None"]

(***************************************************************************)
(* i32 and u32 arithmetic                                                  *)
(***************************************************************************)

\* x >> n on an i32: the arithmetic shift
Shr(x, n) == x \div (2 ^ n)

\* x & mask on an i32, for a mask >= 0
RECURSIVE BitAnd(_, _)
BitAnd(x, mask) ==
    IF mask = 0 THEN 0
    ELSE (x % 2) * (mask % 2) + 2 * BitAnd(x \div 2, mask \div 2)

\* `err as u32`: the same 32 bits, as two 16-bit halves
as_u32(x) == [hi |-> (x \div 65536) % 65536, lo |-> x % 65536]

U32IsZero(u) == u.hi = 0 /\ u.lo = 0
U32Mod16(u) == u.lo % 16
U32Div16(u) == [hi |-> u.hi \div 16, lo |-> (u.hi % 16) * 4096 + u.lo \div 16]

(***************************************************************************)
(* ctru_sys::result: the four decoders                                     *)
(***************************************************************************)

R_DESCRIPTION(res) == BitAnd(res, 1023)
R_MODULE(res) == BitAnd(Shr(res, 10), 255)
R_SUMMARY(res) == BitAnd(Shr(res, 21), 63)
R_LEVEL(res) == BitAnd(Shr(res, 27), 31)

(***************************************************************************)
(* The Error variant                                                       *)
(***************************************************************************)

Os(c) == [tag |-> "Os", code |-> c]
Libc(msg) == [tag |-> "Libc", msg |-> msg]
ServiceAlreadyActive == [tag |-> "ServiceAlreadyActive"]
OutputAlreadyRedirected == [tag |-> "OutputAlreadyRedirected"]

\* impl From<ctru_sys::Result> for Error
ErrorFromResult(c) == Os(c)

\* impl From<LibCtruResult> for Error
ErrorFromLibCtruResult(w) == Os(w)

(***************************************************************************)
(* impl Try for LibCtruResult, impl FromResidual for LibCtruResult         *)
(***************************************************************************)

Continue == [flow |-> "Continue"]
Break(residual) == [flow |-> "Break", residual |-> residual]
Err(e) == [res |-> "Err", err |-> e]
Ok == [res |-> "Ok"]

from_output_m(output) == -1
from_output(output) == 0

branch_m(w) ==
    IF w <= 0 THEN Break(Err(ErrorFromLibCtruResult(w))) ELSE Continue
branch(w) ==
    IF w < 0 THEN Break(Err(ErrorFromLibCtruResult(w))) ELSE Continue

from_residual_sentinel(e) ==
    -1
from_residual_lost(e) ==
    IF e.err.tag = "Os" THEN e.err.code ELSE 0
from_residual(e) ==
    IF e.err.tag = "Os" THEN e.err.code ELSE -1

\* fn f() -> Result<()> { LibCtruResult(c)?; Ok(()) }
\* `?` returns Result::from_residual of the residual, which keeps the Error
try_fn(c) ==
    LET flow == branch(c)
    IN  IF flow.flow = "Break" THEN Err(flow.residual.err) ELSE Ok

(***************************************************************************)
(* core::fmt: {:08X} and {:#08X} of an i32                                 *)
(***************************************************************************)

HexDigits == <<"0", "1", "2", "3", "4", "5", "6", "7",
               "8", "9", "A", "B", "C", "D", "E", "F">>

\* fmt::UpperHex for i32: the digits of `x as u32`, at least one
RECURSIVE fmt_u32_hex(_)
fmt_u32_hex(u) ==
    LET digit == HexDigits[U32Mod16(u) + 1]
        rest == U32Div16(u)
    IN  IF U32IsZero(rest) THEN <<digit>> ELSE fmt_u32_hex(rest) \o <<digit>>

Zeros(n) == [i \in 1..n |-> "0"]

\* Formatter::pad_integral with the 0 flag: the minimum width counts the prefix
pad_integral(alternate, width, digits) ==
    LET prefix == IF alternate THEN <<"0x">> ELSE <<>>
        len == Len(digits) + (IF alternate THEN 2 ELSE 0)
    IN  IF len >= width THEN prefix \o digits
        ELSE prefix \o Zeros(width - len) \o digits

\* format_args!("{:08X}", x)
fmt_08X(x) == pad_integral(FALSE, 8, fmt_u32_hex(as_u32(x)))

\* format_args!("{:#08X}", x)
fmt_alt_08X(x) == pad_integral(TRUE, 8, fmt_u32_hex(as_u32(x)))

(***************************************************************************)
(* impl fmt::Debug for Error, impl fmt::Display for Error                  *)
(***************************************************************************)

DebugFmt_swapped(e) ==
    IF e.tag = "Os"
    THEN [struct |-> "Error",
          raw |-> fmt_alt_08X(e.code),
          description |-> R_DESCRIPTION(e.code),
          module |-> R_SUMMARY(e.code),
          summary |-> R_MODULE(e.code),
          level |-> R_LEVEL(e.code)]
    ELSE IF e.tag = "Libc" THEN [tuple |-> "Libc", field |-> e.msg]
    ELSE [tuple |-> e.tag]
DebugFmt(e) ==
    IF e.tag = "Os"
    THEN [struct |-> "Error",
          raw |-> fmt_alt_08X(e.code),
          description |-> R_DESCRIPTION(e.code),
          module |-> R_MODULE(e.code),
          summary |-> R_SUMMARY(e.code),
          level |-> R_LEVEL(e.code)]
    ELSE IF e.tag = "Libc" THEN [tuple |-> "Libc", field |-> e.msg]
    ELSE [tuple |-> e.tag]

DisplayFmt_unpadded(e) ==
    IF e.tag = "Os"
    THEN <<"libctru result code: 0x">> \o fmt_u32_hex(as_u32(e.code))
    ELSE IF e.tag = "Libc" THEN e.msg
    ELSE IF e.tag = "ServiceAlreadyActive" THEN <<"Service already active">>
    ELSE <<"output streams are already redirected to 3dslink">>
DisplayFmt(e) ==
    IF e.tag = "Os"
    THEN <<"libctru result code: 0x">> \o fmt_08X(e.code)
    ELSE IF e.tag = "Libc" THEN e.msg
    ELSE IF e.tag = "ServiceAlreadyActive" THEN <<"Service already active">>
    ELSE <<"output streams are already redirected to 3dslink">>

(***************************************************************************)
(* The C library: errno and strerror                                       *)
(***************************************************************************)

\* the error numbers the fake C calls set
ErrnoValues == {0, 2, 9, 12}

MsgSuccess ==
    <<"S", "u", "c", "c", "e", "s", "s">>
MsgNoEnt ==
    <<"N", "o", " ", "s", "u", "c", "h", " ", "f", "i", "l", "e", " ", "o",
      "r", " ", "d", "i", "r", "e", "c", "t", "o", "r", "y">>
MsgBadF ==
    <<"B", "a", "d", " ", "f", "i", "l", "e", " ", "d", "e", "s", "c", "r",
      "i", "p", "t", "o", "r">>
MsgNoMem ==
    <<"N", "o", "t", " ", "e", "n", "o", "u", "g", "h", " ", "s", "p", "a",
      "c", "e">>

\* strerror(n): the bytes of the translation, without the terminating NUL
strerror(n) ==
    CASE n = 0 -> MsgSuccess
      [] n = 2 -> MsgNoEnt
      [] n = 9 -> MsgBadF
      [] n = 12 -> MsgNoMem
      [] OTHER -> <<>>

\* what a later C call may leave in the static storage
BufContents == {strerror(n) : n \in ErrnoValues} \cup {<<"\\xFF", "?">>}

\* the one-byte UTF-8 sequences the translations are written in
Ascii ==
    {"A", "B", "C", "D", "E", "F", "G", "H", "I", "J", "K", "L", "M", "N",
     "O", "P", "Q", "R", "S", "T", "U", "V", "W", "X", "Y", "Z", "a", "b",
     "c", "d", "e", "f", "g", "h", "i", "j", "k", "l", "m", "n", "o", "p",
     "q", "r", "s", "t", "u", "v", "w", "x", "y", "z", "0", "1", "2", "3",
     "4", "5", "6", "7", "8", "9", " ", "?"}

\* CStr::to_string_lossy: valid UTF-8 is kept, any other byte becomes U+FFFD
to_string_lossy(bytes) ==
    [i \in 1..Len(bytes) |-> IF bytes[i] \in Ascii THEN bytes[i] ELSE "\\uFFFD"]

\* Cow<str> -> String: a fresh heap allocation holding a copy of the text
into_String_borrowed(text) == [ptr |-> "static", text |-> text]
into_String(text) == [ptr |-> "heap", text |-> text]

(***************************************************************************)
(* The shim, driven by one OS result code                                  *)
(***************************************************************************)

\* sample values of the bit fields: description, module, bits 18..20,
\* summary, level
DescriptionSamples == {0, 1, 1006, 1023}
ModuleSamples == {0, 1, 255}
GapSamples == {0, 7}
SummarySamples == {0, 7, 63}
LevelSamples == {0, 15, 16, 27, 31}

\* the i32 with the given fields: a level of 16 or more sets the sign bit
MkCode(level, summary, gap, module, description) ==
    (IF level >= 16 THEN level - 32 ELSE level) * (2 ^ 27)
        + summary * (2 ^ 21) + gap * (2 ^ 18) + module * (2 ^ 10) + description

Codes ==
    {MkCode(l, s, g, m, d) : l \in LevelSamples, s \in SummarySamples,
        g \in GapSamples, m \in ModuleSamples, d \in DescriptionSamples}

\* the messages an Error::Libc is built with
Messages == {to_string_lossy(strerror(n)) : n \in {2, 9}}

Op(op, in, out) == [op |-> op, in |-> in, out |-> out]

ShimIdle ==
    /\ code = 0
    /\ wrapper = 0
    /\ err = None
    /\ last = Op("idle", None, None)

\* a raw C call returns a code, wrapped as LibCtruResult(code)
ShimInit ==
    /\ code \in Codes
    /\ wrapper = code
    /\ err = None
    /\ last = Op("os_call", None, code)

\* wrapper.branch(); a residual's Error is kept in hand
Branch ==
    LET flow == branch(wrapper)
    IN  /\ last' = Op("branch", wrapper, flow)
        /\ err' = IF flow.flow = "Break" THEN flow.residual.err ELSE err
        /\ UNCHANGED <<code, wrapper>>

\* a function returning Result<()> applies `?` to LibCtruResult(code)
TryFn ==
    /\ last' = Op("try_fn", code, try_fn(code))
    /\ UNCHANGED <<code, wrapper, err>>

\* LibCtruResult::from_residual(Err(err))
FromResidual ==
    /\ err # None
    /\ wrapper' = from_residual(Err(err))
    /\ last' = Op("from_residual", err, wrapper')
    /\ UNCHANGED <<code, err>>

\* LibCtruResult::from_output(())
FromOutput ==
    /\ wrapper' = from_output(<<>>)
    /\ last' = Op("from_output", <<>>, wrapper')
    /\ UNCHANGED <<code, err>>

\* Error::from(code)
FromCode ==
    /\ err' = ErrorFromResult(code)
    /\ last' = Op("from_i32", code, err')
    /\ UNCHANGED <<code, wrapper>>

\* Error::from(wrapper)
FromWrapper ==
    /\ err' = ErrorFromLibCtruResult(wrapper)
    /\ last' = Op("from_wrapper", wrapper, err')
    /\ UNCHANGED <<code, wrapper>>

\* the variants built directly
MakeError ==
    /\ \E e \in {Libc(m) : m \in Messages}
                \cup {ServiceAlreadyActive, OutputAlreadyRedirected} :
          /\ err' = e
          /\ last' = Op("make", None, e)
    /\ UNCHANGED <<code, wrapper>>

\* format!("{}", err)
Display ==
    /\ err # None
    /\ last' = Op("display", err, DisplayFmt(err))
    /\ UNCHANGED <<code, wrapper, err>>

\* format!("{:?}", err)
Debug ==
    /\ err # None
    /\ last' = Op("debug", err, DebugFmt(err))
    /\ UNCHANGED <<code, wrapper, err>>

(***************************************************************************)
(* Error::from_errno and the C calls around it.  Here an Error::Libc is    *)
(* its String's allocation: held.ptr says where the text lives.            *)
(***************************************************************************)

ErrnoIdle ==
    /\ errno = 0
    /\ strerror_buf = <<>>
    /\ heap = <<>>
    /\ held = None
    /\ errnoAtCall = 0

ErrnoInit ==
    /\ errno \in ErrnoValues
    /\ strerror_buf = <<>>
    /\ heap = <<>>
    /\ held = None
    /\ errnoAtCall = -1

\* the text of a String, read through its pointer
Deref(ptr) == IF ptr = "static" THEN strerror_buf ELSE heap

HeldMessage == Deref(held.ptr)

\* Error::from_errno(): errno, strerror, CStr::from_ptr, to_string_lossy, into
FromErrno ==
    LET n == errno
        translated == strerror(n)
        string == into_String(to_string_lossy(translated))
    IN  /\ strerror_buf' = translated
        /\ heap' = IF string.ptr = "heap" THEN string.text ELSE heap
        /\ held' = [tag |-> "Libc", ptr |-> string.ptr]
        /\ errnoAtCall' = n
        /\ UNCHANGED errno

\* a later C call fails and sets errno
SetErrno ==
    /\ \E n \in ErrnoValues : n # errno /\ errno' = n
    /\ UNCHANGED <<strerror_buf, heap, held, errnoAtCall>>

\* a later C call overwrites the static translation storage
OverwriteBuf ==
    /\ \E b \in BufContents : b # strerror_buf /\ strerror_buf' = b
    /\ UNCHANGED <<errno, heap, held, errnoAtCall>>

\* the Error is handled and dropped; its String frees its allocation
DropError ==
    /\ held # None
    /\ held' = None
    /\ heap' = IF held.ptr = "heap" THEN <<>> ELSE heap
    /\ UNCHANGED <<errno, strerror_buf, errnoAtCall>>

(***************************************************************************)
(* examples/futures-tokio-basic.rs: the main thread pumps the application  *)
(* loop, the runtime thread runs the ticking task until told to exit.      *)
(***************************************************************************)

\* the clock stops advancing here
MaxTime == 4

ExampleIdle ==
    /\ mainPc = "idle"
    /\ taskPc = "idle"
    /\ exitChan = "empty"
    /\ now = 0
    /\ wake_time = 0
    /\ ticks = 0
    /\ ticksAtJoin = -1

\* the runtime thread is spawned, wake_time = Instant::now() + 1 s
ExampleInit ==
    /\ mainPc = "main_loop"
    /\ taskPc = "select"
    /\ exitChan = "empty"
    /\ now = 0
    /\ wake_time = now + 1
    /\ ticks = 0
    /\ ticksAtJoin = -1

\* time passes
Clock ==
    /\ now < MaxTime
    /\ now' = now + 1
    /\ UNCHANGED <<mainPc, taskPc, exitChan, wake_time, ticks, ticksAtJoin>>

\* while apt.main_loop(): true, and hid.scan_input()
MainLoopContinues ==
    /\ mainPc = "main_loop"
    /\ mainPc' = "keys"
    /\ UNCHANGED <<taskPc, exitChan, now, wake_time, ticks, ticksAtJoin>>

\* apt.main_loop() is false: main returns and drops exit_sender
MainLoopEnds ==
    /\ mainPc = "main_loop"
    /\ mainPc' = "returned"
    /\ exitChan' = "closed"
    /\ UNCHANGED <<taskPc, now, wake_time, ticks, ticksAtJoin>>

\* START is not down: flush_buffers, swap_buffers, wait_for_vblank
MainFrame ==
    /\ mainPc = "keys"
    /\ mainPc' = "main_loop"
    /\ UNCHANGED <<taskPc, exitChan, now, wake_time, ticks, ticksAtJoin>>

\* START is down
MainStart ==
    /\ mainPc = "keys"
    /\ mainPc' = "send"
    /\ UNCHANGED <<taskPc, exitChan, now, wake_time, ticks, ticksAtJoin>>

\* let _ = exit_sender.send(())
MainSend_forgotten ==
    /\ mainPc = "send"
    /\ mainPc' = "join"
    /\ UNCHANGED <<taskPc, exitChan, now, wake_time, ticks, ticksAtJoin>>
MainSend ==
    /\ mainPc = "send"
    /\ mainPc' = "join"
    /\ exitChan' = "sent"
    /\ UNCHANGED <<taskPc, now, wake_time, ticks, ticksAtJoin>>

\* let _ = runtime_thread.join() returns once the thread has finished; break
MainJoin ==
    /\ mainPc = "join"
    /\ taskPc = "finished"
    /\ mainPc' = "joined"
    /\ ticksAtJoin' = ticks
    /\ UNCHANGED <<taskPc, exitChan, now, wake_time, ticks>>

\* select!: the sleep_until(wake_time) branch is ready and is taken
TaskTick ==
    /\ taskPc = "select"
    /\ now >= wake_time
    /\ ticks' = ticks + 1
    /\ wake_time' = wake_time + 1
    /\ UNCHANGED <<mainPc, taskPc, exitChan, now, ticksAtJoin>>

\* select!: the exit_receiver branch is ready (a value, or the sender is
\* gone) and is taken: break, block_on returns, the thread finishes
TaskExit ==
    /\ taskPc = "select"
    /\ exitChan # "empty"
    /\ taskPc' = "finished"
    /\ UNCHANGED <<mainPc, exitChan, now, wake_time, ticks, ticksAtJoin>>

(***************************************************************************)
(* The specifications                                                      *)
(***************************************************************************)

Init == ShimInit /\ ErrnoIdle /\ ExampleIdle

Next ==
    \/ Branch /\ UNCHANGED <<errnoVars, exampleVars>>
    \/ TryFn /\ UNCHANGED <<errnoVars, exampleVars>>
    \/ FromResidual /\ UNCHANGED <<errnoVars, exampleVars>>
    \/ FromOutput /\ UNCHANGED <<errnoVars, exampleVars>>
    \/ FromCode /\ UNCHANGED <<errnoVars, exampleVars>>
    \/ FromWrapper /\ UNCHANGED <<errnoVars, exampleVars>>
    \/ MakeError /\ UNCHANGED <<errnoVars, exampleVars>>
    \/ Display /\ UNCHANGED <<errnoVars, exampleVars>>
    \/ Debug /\ UNCHANGED <<errnoVars, exampleVars>>

Spec == Init /\ [][Next]_vars

ErrnoSpecInit == ShimIdle /\ ErrnoInit /\ ExampleIdle

ErrnoNext ==
    \/ FromErrno /\ UNCHANGED <<shimVars, exampleVars>>
    \/ SetErrno /\ UNCHANGED <<shimVars, exampleVars>>
    \/ OverwriteBuf /\ UNCHANGED <<shimVars, exampleVars>>
    \/ DropError /\ UNCHANGED <<shimVars, exampleVars>>

ErrnoSpec == ErrnoSpecInit /\ [][ErrnoNext]_vars

LiveInit == ShimIdle /\ ErrnoIdle /\ ExampleInit

LiveNext ==
    \/ Clock /\ UNCHANGED <<shimVars, errnoVars>>
    \/ MainLoopContinues /\ UNCHANGED <<shimVars, errnoVars>>
    \/ MainLoopEnds /\ UNCHANGED <<shimVars, errnoVars>>
    \/ MainFrame /\ UNCHANGED <<shimVars, errnoVars>>
    \/ MainStart /\ UNCHANGED <<shimVars, errnoVars>>
    \/ MainSend /\ UNCHANGED <<shimVars, errnoVars>>
    \/ MainJoin /\ UNCHANGED <<shimVars, errnoVars>>
    \/ TaskTick /\ UNCHANGED <<shimVars, errnoVars>>
    \/ TaskExit /\ UNCHANGED <<shimVars, errnoVars>>

\* both threads are scheduled: the main thread has the application core, the
\* runtime thread the system core's share; select! picks among ready branches
\* at random, so a branch that stays ready is taken
LiveSpec ==
    /\ LiveInit
    /\ [][LiveNext]_vars
    /\ WF_vars(MainSend /\ UNCHANGED <<shimVars, errnoVars>>)
    /\ WF_vars(MainJoin /\ UNCHANGED <<shimVars, errnoVars>>)
    /\ WF_vars(TaskExit /\ UNCHANGED <<shimVars, errnoVars>>)

(***************************************************************************)
(* The properties                                                          *)
(***************************************************************************)

\* bit i of the 32-bit two's-complement pattern of the i32 c
Bit(c, i) == IF i = 31 THEN (IF c < 0 THEN 1 ELSE 0) ELSE (c \div (2 ^ i)) % 2

\* bits lo .. lo+n-1 of c, as a number
RECURSIVE BitSlice(_, _, _)
BitSlice(c, lo, n) ==
    IF n = 0 THEN 0 ELSE Bit(c, lo) + 2 * BitSlice(c, lo + 1, n - 1)

UpperHexChars == <<"0", "1", "2", "3", "4", "5", "6", "7",
                   "8", "9", "A", "B", "C", "D", "E", "F">>

\* the eight hexadecimal digits of c's pattern, most significant first
EightDigits(c) == [k \in 1..8 |-> UpperHexChars[BitSlice(c, 4 * (8 - k), 4) + 1]]

\* 0xD8E007EE as an i32
ExampleCode == (55520 - 65536) * 65536 + 2030

OsError(c) == [tag |-> "Os", code |-> c]

\* C1: branching LibCtruResult(code) breaks exactly when code < 0, with the
\* residual Err(Error::Os(code)), and continues with () for every code >= 0;
\* a function returning Result<()> that applies `?` to the wrapper returns
\* Err(Error::Os(code)) for a negative code and Ok(()) otherwise.
C1_BranchBySign ==
    /\ last.op = "branch" =>
          /\ (last.out.flow = "Break") <=> (last.in < 0)
          /\ last.in < 0 =>
                last.out = [flow |-> "Break",
                            residual |-> [res |-> "Err", err |-> OsError(last.in)]]
          /\ last.in >= 0 => last.out = [flow |-> "Continue"]
    /\ last.op = "try_fn" =>
          IF last.in < 0
          THEN last.out = [res |-> "Err", err |-> OsError(last.in)]
          ELSE last.out = [res |-> "Ok"]

C1_Witness ==
    /\ last.op = "try_fn"
    /\ last.in < -1
    /\ last.out.res = "Err"
    /\ last.out.err.code = last.in

\* C2: from_residual of a residual carrying Error::Os(code), code negative,
\* holds exactly code; of a residual carrying any other variant it holds -1.
C2_LossyRebuild ==
    last.op = "from_residual" =>
        /\ (last.in.tag = "Os" /\ last.in.code < 0) => last.out = last.in.code
        /\ last.in.tag # "Os" => last.out = -1

C2_Witness ==
    /\ last.op = "from_residual"
    /\ last.in.tag = "Os"
    /\ last.in.code < -1
    /\ wrapper = last.in.code

\* C3: for every i32 code, negative ones included, the four fields the Debug
\* rendering of Error::Os(code) shows are the bit slices of the code's 32-bit
\* pattern: description bits 0..9, module bits 10..17, summary bits 21..26,
\* level bits 27..31, hence within 0..1023, 0..255, 0..63 and 0..31.
C3_FieldsAreBitSlices ==
    (last.op = "debug" /\ last.in.tag = "Os") =>
        LET c == last.in.code
        IN  /\ last.out.description = BitSlice(c, 0, 10)
            /\ last.out.module = BitSlice(c, 10, 8)
            /\ last.out.summary = BitSlice(c, 21, 6)
            /\ last.out.level = BitSlice(c, 27, 5)
            /\ last.out.description \in 0..1023
            /\ last.out.module \in 0..255
            /\ last.out.summary \in 0..63
            /\ last.out.level \in 0..31

C3_Witness ==
    /\ last.op = "debug"
    /\ last.in.tag = "Os"
    /\ last.in.code < 0
    /\ last.out.module = 255
    /\ last.out.summary = 7
    /\ last.out.level = 16

\* C4: Error::Os(code) displays as `libctru result code: 0x` followed by
\* exactly eight zero-padded uppercase hexadecimal digits of the code's 32-bit
\* pattern; Os(-1) gives 0xFFFFFFFF and Os(0) gives 0x00000000.
C4_DisplayEightDigits ==
    (last.op = "display" /\ last.in.tag = "Os") =>
        /\ last.out = <<"libctru result code: 0x">> \o EightDigits(last.in.code)
        /\ Len(last.out) = 9
        /\ last.in.code = -1 =>
              last.out = <<"libctru result code: 0x",
                           "F", "F", "F", "F", "F", "F", "F", "F">>
        /\ last.in.code = 0 =>
              last.out = <<"libctru result code: 0x",
                           "0", "0", "0", "0", "0", "0", "0", "0">>

C4_Witness ==
    /\ last.op = "display"
    /\ last.in.tag = "Os"
    /\ last.in.code = 1
    /\ last.out[2] = "0"
    /\ last.out[9] = "1"

\* C5: for every i32 code, the raw field of the Debug output of
\* Error::Os(code) is `0x` followed by exactly eight zero-padded uppercase
\* hexadecimal digits, the digits Display shows, beside the fields
\* description, module, summary and level.
C5_DebugRawEightDigits ==
    (last.op = "debug" /\ last.in.tag = "Os") =>
        /\ DOMAIN last.out =
              {"struct", "raw", "description", "module", "summary", "level"}
        /\ last.out.raw = <<"0x">> \o EightDigits(last.in.code)
        /\ last.out.raw = <<"0x">> \o Tail(DisplayFmt(last.in))

\* C6: decoding 0xD8E007EE gives description 0x1EE (494), module 0x1F (31),
\* summary 0x38 (56) and level 0x1B (27).
C6_ExampleAsClaimed ==
    (last.op = "debug" /\ last.in = OsError(ExampleCode)) =>
        /\ last.out.description = 494
        /\ last.out.module = 31
        /\ last.out.summary = 56
        /\ last.out.level = 27

\* C6, amended: decoding 0xD8E007EE gives description 0x3EE (1006), module 1,
\* summary 7 and level 0x1B (27).
C6_ExampleDecoded ==
    (last.op = "debug" /\ last.in = OsError(ExampleCode)) =>
        /\ last.out.description = 1006
        /\ last.out.module = 1
        /\ last.out.summary = 7
        /\ last.out.level = 27

C6_Witness ==
    /\ last.op = "debug"
    /\ last.in = OsError(ExampleCode)
    /\ last.out.level = 27

\* C7: the Error::Libc from_errno returned stores the strerror translation of
\* the errno current at the call, and stays so whatever later C calls do to
\* errno and to the static translation storage.
C7_LibcOwnsMessage ==
    held # None =>
        /\ held.tag = "Libc"
        /\ HeldMessage = strerror(errnoAtCall)

C7_Witness ==
    /\ held # None
    /\ errnoAtCall = 9
    /\ errno # errnoAtCall
    /\ strerror_buf # strerror(errnoAtCall)
    /\ HeldMessage = MsgBadF

\* C8: from_output(()) holds 0, and that wrapper is a success: branching it
\* continues with () and does not break.
C8_FromOutputIsSuccess ==
    /\ last.op = "from_output" =>
          /\ last.out = 0
          /\ wrapper = 0
          /\ branch(wrapper) = [flow |-> "Continue"]
    /\ (last.op = "branch" /\ last.in = from_output(<<>>)) =>
          last.out.flow = "Continue"

C8_Witness ==
    /\ last.op = "branch"
    /\ code < 0
    /\ wrapper = 0
    /\ last.in = 0
    /\ last.out.flow = "Continue"

\* C9: a wrapper rebuilt from a residual is always a failure: for every
\* Error, Error::Os(code) of any i32 code included, from_residual(Err(e))
\* holds a negative code and branching it breaks again.
C9_RebuiltAlwaysFails ==
    last.op = "from_residual" =>
        /\ last.out < 0
        /\ branch(last.out).flow = "Break"

\* C9, amended: a wrapper rebuilt from a residual is a failure whenever the
\* residual carries a variant other than Os, or Os(code) with code < 0 (as
\* every residual of branch does); rebuilt from Os(code) with code >= 0 it
\* holds that code and is a success.
C9_RebuiltFailsUnlessNonNegativeOs ==
    /\ last.op = "from_residual" =>
          IF last.in.tag = "Os" /\ last.in.code >= 0
          THEN /\ last.out = last.in.code
               /\ branch(last.out).flow = "Continue"
          ELSE /\ last.out < 0
               /\ branch(last.out).flow = "Break"
    /\ (last.op = "branch" /\ last.out.flow = "Break") =>
          from_residual(last.out.residual) < 0

C9_Witness ==
    /\ last.op = "from_residual"
    /\ last.in.tag = "Libc"
    /\ code > 0
    /\ wrapper < 0

\* C10: once the main thread has seen START it sends the exit signal and
\* joins, and the join eventually returns: the task, which ticks and moves
\* wake_time on by one second whenever the sleep wins, takes the exit branch;
\* no Tick is printed after the join has returned.
C10_JoinReturns ==
    /\ (mainPc = "send") ~> (mainPc = "joined")
    /\ [](mainPc \in {"join", "joined"} => exitChan = "sent")
    /\ [](mainPc = "joined" => taskPc = "finished")
    /\ [](wake_time = ticks + 1)
    /\ [](ticksAtJoin # -1 => ticks = ticksAtJoin)

C10_Witness ==
    /\ mainPc = "joined"
    /\ ticks > 1
    /\ ticksAtJoin = ticks
    /\ now > wake_time

====
